---- MODULE Spec2Model ----
(***************************************************************************)
(* htmlwasher: parseSetup (YAML policy text -> validated policy) and wash  *)
(* (policy resolution, engine options with security overrides, sanitizer   *)
(* call, title and image-alt post-processing).                             *)
(*                                                                         *)
(* Strings of the program are TLA+ strings; a text that the program builds *)
(* by concatenation is the sequence of its pieces.  A policy text is       *)
(* represented by the node tree the YAML grammar gives it, plus its        *)
(* surrounding whitespace; the html given to wash is a sequence of tag and *)
(* text tokens, and the html the sanitizer returns, and everything after   *)
(* it, is a string of characters.                                          *)
(***************************************************************************)
EXTENDS Integers, Sequences, FiniteSets, TLC

VARIABLES pc, yamlString, html, options, validateErrors,
          warnings, config, sanitizeOptions, result, ret, presets

vars == <<pc, yamlString, html, options, validateErrors,
          warnings, config, sanitizeOptions, result, ret, presets>>

(* ----------------------------- bounds ---------------------------------- *)
MaxEntries == 2
MaxPad == 1
MaxDepth == 2

(* ----------------------------- helpers --------------------------------- *)
None == [none |-> TRUE]

(* a string value that may also be absent (None) *)
Str(cs) == [chars |-> cs]

SeqsUpTo(S, n) == UNION {[1..k -> S] : k \in 0..n}

RECURSIVE Flatten(_)
Flatten(ss) == IF ss = <<>> THEN <<>> ELSE Head(ss) \o Flatten(Tail(ss))

Range(s) == {s[i] : i \in DOMAIN s}

(* ------------------- YAML nodes of a policy text ----------------------- *)
Node(t, s, items, m) == [t |-> t, s |-> s, items |-> items, m |-> m]
Plain(s) == Node("plain", s, <<>>, <<>>)
Quoted(s) == Node("quoted", s, <<>>, <<>>)
Alias(s) == Node("alias", s, <<>>, <<>>)
Unclosed == Node("unclosed", "[yaml", <<>>, <<>>)
SeqN(items) == Node("seq", "", items, <<>>)
MapN(m) == Node("map", "", <<>>, m)
EmptyDoc == Node("empty", "", <<>>, <<>>)
Pair(k, v) == [key |-> k, val |-> v]

Text(c) == [pad |-> 0, trap |-> "none", contents |-> c]

(* ------------------------ data tree (JS values) ------------------------ *)
JsNull == Node("null", "", <<>>, <<>>)
JsStr(s) == Node("str", s, <<>>, <<>>)
JsBool(s) == Node("bool", s, <<>>, <<>>)
JsNum(s) == Node("num", s, <<>>, <<>>)
JsArr(items) == Node("arr", "", items, <<>>)
JsObj(m) == Node("obj", "", <<>>, m)

(* YAML.parseDocument: syntax errors in document order.  A flow sequence   *)
(* left open and a repeated map key are errors; an alias is not.           *)
YamlError(code, msg, at) == [code |-> code, message |-> <<msg, " at ", at>>]

RECURSIVE SyntaxErrors(_, _)
SyntaxErrors(n, at) ==
  CASE n.t = "unclosed" ->
         <<YamlError("MISSING_CHAR", "Flow sequence must end with a ]", at)>>
    [] n.t = "seq" ->
         Flatten([i \in DOMAIN n.items |-> SyntaxErrors(n.items[i], at)])
    [] n.t = "map" ->
         Flatten([i \in DOMAIN n.m |->
            (IF \E j \in 1..(i - 1) : n.m[j].key = n.m[i].key
               THEN <<YamlError("DUPLICATE_KEY", "Map keys must be unique", n.m[i].key)>>
               ELSE <<>>)
            \o SyntaxErrors(n.m[i].val, n.m[i].key)])
    [] OTHER -> <<>>

ParseDocument(text) ==
  IF text.trap # "none"
    THEN [thrown |-> TRUE,
          error |-> [isError |-> text.trap = "Error",
                     message |-> <<"Maximum call stack size exceeded">>],
          errors |-> <<>>, contents |-> EmptyDoc]
    ELSE [thrown |-> FALSE, error |-> None,
          errors |-> SyntaxErrors(text.contents, "document"),
          contents |-> text.contents]

(* doc.toJS(): core-schema scalar resolution, collections to arrays and    *)
(* objects, an empty document to null; an alias whose anchor was never set *)
(* makes the conversion throw a ReferenceError.                            *)
RECURSIVE HasAlias(_)
HasAlias(n) ==
  \/ n.t = "alias"
  \/ \E i \in DOMAIN n.items : HasAlias(n.items[i])
  \/ \E i \in DOMAIN n.m : HasAlias(n.m[i].val)

ResolveScalar(s) ==
  CASE s \in {"true", "false"} -> JsBool(s)
    [] s \in {"", "null", "~"} -> JsNull
    [] s \in {"0", "1", "2"} -> JsNum(s)
    [] OTHER -> JsStr(s)

RECURSIVE NodeToJS(_)
NodeToJS(n) ==
  CASE n.t = "plain" -> ResolveScalar(n.s)
    [] n.t = "quoted" -> JsStr(n.s)
    [] n.t = "seq" -> JsArr([i \in DOMAIN n.items |-> NodeToJS(n.items[i])])
    [] n.t = "map" -> JsObj([i \in DOMAIN n.m |->
                              Pair(n.m[i].key, NodeToJS(n.m[i].val))])
    [] OTHER -> JsNull

ToJS(contents) ==
  IF HasAlias(contents)
    THEN [thrown |-> TRUE, data |-> JsNull]
    ELSE [thrown |-> FALSE, data |-> NodeToJS(contents)]

(* --------------------------- the schema -------------------------------- *)
DisallowedTagsModes == <<"discard", "escape", "recursiveEscape", "completelyDiscard">>

SchemaProperties ==
  << [name |-> "allowedTags", type |-> "stringArray"],
     [name |-> "allowedAttributes", type |-> "stringArrayRecord"],
     [name |-> "allowedClasses", type |-> "stringArrayRecord"],
     [name |-> "disallowedTagsMode", type |-> "modeEnum"],
     [name |-> "selfClosing", type |-> "stringArray"],
     [name |-> "allowProtocolRelative", type |-> "boolean"] >>

SchemaNames == {SchemaProperties[i].name : i \in DOMAIN SchemaProperties}

HasKey(obj, k) == \E i \in DOMAIN obj.m : obj.m[i].key = k
Get(obj, k) == obj.m[CHOOSE i \in DOMAIN obj.m : obj.m[i].key = k].val

(* ------------- validate: the compiled validator, allErrors ------------- *)
Violation(path, msg) == [instancePath |-> path, message |-> msg]

StringArrayErrors(v, path) ==
  IF v.t # "arr"
    THEN <<Violation(path, "must be array")>>
    ELSE Flatten([i \in DOMAIN v.items |->
           IF v.items[i].t # "str"
             THEN <<Violation(path \o <<ToString(i - 1)>>, "must be string")>>
             ELSE <<>>])

TypeErrors(type, v, path) ==
  CASE type = "stringArray" -> StringArrayErrors(v, path)
    [] type = "stringArrayRecord" ->
         IF v.t # "obj"
           THEN <<Violation(path, "must be object")>>
           ELSE Flatten([i \in DOMAIN v.m |->
                  StringArrayErrors(v.m[i].val, path \o <<v.m[i].key>>)])
    [] type = "modeEnum" ->
         (IF v.t # "str" THEN <<Violation(path, "must be string")>> ELSE <<>>)
         \o (IF v.t # "str" \/ v.s \notin Range(DisallowedTagsModes)
               THEN <<Violation(path, "must be equal to one of the allowed values")>>
               ELSE <<>>)
    [] type = "boolean" ->
         IF v.t # "bool" THEN <<Violation(path, "must be boolean")>> ELSE <<>>

AdditionalPropertiesErrors_open(data) == <<>>

AdditionalPropertiesErrors(data) ==
  Flatten([i \in DOMAIN data.m |->
    IF data.m[i].key \notin SchemaNames
      THEN <<Violation(<<>>, "must NOT have additional properties")>>
      ELSE <<>>])

PropertiesErrors(data) ==
  Flatten([i \in DOMAIN SchemaProperties |->
    IF HasKey(data, SchemaProperties[i].name)
      THEN TypeErrors(SchemaProperties[i].type,
                      Get(data, SchemaProperties[i].name),
                      <<SchemaProperties[i].name>>)
      ELSE <<>>])

(* validate(data): the list of violations; none means the data is valid,   *)
(* and validate.errors is then null, here the empty list.                  *)
Validate_lenient(data) ==
  IF data.t # "obj"
    THEN <<>>
    ELSE AdditionalPropertiesErrors(data) \o PropertiesErrors(data)

Validate(data) ==
  IF data.t # "obj"
    THEN <<Violation(<<>>, "must be object")>>
    ELSE AdditionalPropertiesErrors(data) \o PropertiesErrors(data)

(* instancePath as text: "/seg/seg"; the empty path is the empty string.   *)
PathText(path) == Flatten([i \in DOMAIN path |-> <<"/", path[i]>>])

(* ----------------------------- parseSetup ------------------------------ *)
Fail(code, msg) == [ok |-> FALSE, errorCode |-> code, errorMessage |-> msg]

Ok_defaulted(data) ==
  [ok |-> TRUE,
   config |-> IF data.t = "obj" /\ ~HasKey(data, "disallowedTagsMode")
                THEN JsObj(data.m \o <<Pair("disallowedTagsMode", JsStr("discard"))>>)
                ELSE data]

Ok(data) == [ok |-> TRUE, config |-> data]

Returned(value, errs) == [thrown |-> FALSE, value |-> value, errors |-> errs]
Thrown(name, errs) == [thrown |-> TRUE, value |-> [exception |-> name], errors |-> errs]

(* the catch block and the doc.errors branch *)
SyntaxFailure_last(doc) ==
  Fail("YAML_SYNTAX_ERROR",
       IF doc.thrown
         THEN (IF doc.error.isError THEN doc.error.message ELSE <<"Unknown YAML error">>)
         ELSE doc.errors[Len(doc.errors)].message)

SyntaxFailure(doc) ==
  Fail("YAML_SYNTAX_ERROR",
       IF doc.thrown
         THEN (IF doc.error.isError THEN doc.error.message ELSE <<"Unknown YAML error">>)
         ELSE doc.errors[1].message)

SchemaFailure_last(errs) ==
  LET e == Len(errs)
      path == IF errs # <<>> THEN PathText(errs[e].instancePath) ELSE <<>>
      message == IF errs # <<>> THEN errs[e].message ELSE "Unknown validation error"
  IN Fail("SCHEMA_VALIDATION_ERROR",
          IF path # <<>> THEN path \o <<": ", message>> ELSE <<message>>)

SchemaFailure(errs) ==
  LET path == IF errs # <<>> THEN PathText(errs[1].instancePath) ELSE <<>>
      message == IF errs # <<>> THEN errs[1].message ELSE "Unknown validation error"
  IN Fail("SCHEMA_VALIDATION_ERROR",
          IF path # <<>> THEN path \o <<": ", message>> ELSE <<message>>)

ParseSetup_stale(text, prev) ==
  LET doc == ParseDocument(text) IN
  IF doc.thrown \/ Len(doc.errors) > 0
    THEN Returned(SyntaxFailure(doc), prev)
  ELSE LET js == ToJS(doc.contents) IN
    IF js.thrown
      THEN Thrown("ReferenceError", prev)
      ELSE LET errs == prev \o Validate(js.data) IN
        IF errs # <<>>
          THEN Returned(SchemaFailure(errs), errs)
          ELSE Returned(Ok(js.data), <<>>)

(* prev is validate.errors before the call; the call leaves it as it was   *)
(* unless it reaches validate(data).  doc.toJS() is outside the try block: *)
(* what it throws leaves parseSetup.                                       *)
ParseSetup(text, prev) ==
  LET doc == ParseDocument(text) IN
  IF doc.thrown \/ Len(doc.errors) > 0
    THEN Returned(SyntaxFailure(doc), prev)
  ELSE LET js == ToJS(doc.contents) IN
    IF js.thrown
      THEN Thrown("ReferenceError", prev)
      ELSE LET errs == Validate(js.data) IN
        IF errs # <<>>
          THEN Returned(SchemaFailure(errs), errs)
          ELSE Returned(Ok(js.data), <<>>)

(* ------------------------------ strings -------------------------------- *)
(* The characters of a string.  Spelled out for every string of the model  *)
(* that has an upper-case letter, a "*" or a leading "o", and for every    *)
(* tag or attribute name that reaches the output of the sanitizer; a       *)
(* string of one character is its own spelling.                            *)
Chars(s) ==
  CASE s = "onclick" -> <<"o", "n", "c", "l", "i", "c", "k">>
    [] s = "ONCLICK" -> <<"O", "N", "C", "L", "I", "C", "K">>
    [] s = "OnLoad" -> <<"O", "n", "L", "o", "a", "d">>
    [] s = "onload" -> <<"o", "n", "l", "o", "a", "d">>
    [] s = "on" -> <<"o", "n">>
    [] s = "o*" -> <<"o", "*">>
    [] s = "*" -> <<"*">>
    [] s = "SCRIPT" -> <<"S", "C", "R", "I", "P", "T">>
    [] s = "script" -> <<"s", "c", "r", "i", "p", "t">>
    [] s = "object" -> <<"o", "b", "j", "e", "c", "t">>
    [] s = "style" -> <<"s", "t", "y", "l", "e">>
    [] s = "iframe" -> <<"i", "f", "r", "a", "m", "e">>
    [] s = "embed" -> <<"e", "m", "b", "e", "d">>
    [] s = "applet" -> <<"a", "p", "p", "l", "e", "t">>
    [] s = "frame" -> <<"f", "r", "a", "m", "e">>
    [] s = "frameset" -> <<"f", "r", "a", "m", "e", "s", "e", "t">>
    [] s = "img" -> <<"i", "m", "g">>
    [] s = "title" -> <<"t", "i", "t", "l", "e">>
    [] s = "head" -> <<"h", "e", "a", "d">>
    [] s = "header" -> <<"h", "e", "a", "d", "e", "r">>
    [] s = "href" -> <<"h", "r", "e", "f">>
    [] s = "src" -> <<"s", "r", "c">>
    [] s = "alt" -> <<"a", "l", "t">>
    [] s = "img-x" -> <<"i", "m", "g", "-", "x">>
    [] s = "class" -> <<"c", "l", "a", "s", "s">>
    [] OTHER -> <<s>>

Spelled == {"onclick", "ONCLICK", "OnLoad", "onload", "on", "o*", "*", "SCRIPT",
            "script", "object"}

LowerChar(c) ==
  CASE c = "O" -> "o" [] c = "N" -> "n" [] c = "C" -> "c" [] c = "L" -> "l"
    [] c = "I" -> "i" [] c = "K" -> "k" [] c = "S" -> "s" [] c = "R" -> "r"
    [] c = "P" -> "p" [] c = "T" -> "t" [] c = "E" -> "e" [] c = "H" -> "h"
    [] c = "A" -> "a" [] c = "D" -> "d" [] c = "M" -> "m" [] c = "G" -> "g"
    [] OTHER -> c

LowerChars(cs) == [i \in DOMAIN cs |-> LowerChar(cs[i])]

(* s.toLowerCase() as a string of the model *)
ToLowerCase(s) ==
  IF \E l \in Spelled : Chars(l) = LowerChars(Chars(s))
    THEN CHOOSE l \in Spelled : Chars(l) = LowerChars(Chars(s))
    ELSE s

StartsWith(cs, prefix) ==
  Len(cs) >= Len(prefix) /\ SubSeq(cs, 1, Len(prefix)) = prefix

(* a name against an allowed-attribute entry with "*" wildcards *)
RECURSIVE GlobMatch(_, _)
GlobMatch(pat, cs) ==
  IF pat = <<>> THEN cs = <<>>
  ELSE IF Head(pat) = "*"
    THEN \E k \in 0..Len(cs) : GlobMatch(Tail(pat), SubSeq(cs, k + 1, Len(cs)))
    ELSE cs # <<>> /\ Head(cs) = Head(pat) /\ GlobMatch(Tail(pat), Tail(cs))

Strs(arr) == [i \in DOMAIN arr.items |-> arr.items[i].s]

(* ------------------------------ html tokens ---------------------------- *)
Open(tag, attrs) == [k |-> "open", tag |-> tag, attrs |-> attrs, txt |-> <<>>]
Close(tag) == [k |-> "close", tag |-> tag, attrs |-> <<>>, txt |-> <<>>]
Txt(cs) == [k |-> "text", tag |-> "", attrs |-> <<>>, txt |-> cs]
(* a token as it is written in the markup *)
SourceText(tok) ==
  CASE tok.k = "open" ->
         <<"<">> \o Chars(tok.tag)
           \o Flatten([j \in DOMAIN tok.attrs |-> <<" ">> \o Chars(tok.attrs[j])]) \o <<">">>
    [] tok.k = "close" -> <<"<", "/">> \o Chars(tok.tag) \o <<">">>
    [] OTHER -> tok.txt
RawText(tok) == [k |-> "raw", tag |-> "", attrs |-> <<>>, txt |-> SourceText(tok)]
EscapedTag(tok) == [tok EXCEPT !.k = IF tok.k = "close" THEN "escapedClose" ELSE "escaped"]

(* ------------- the markup parser under the sanitizer ------------------- *)
(* Names are lower-cased, a void element closes at once, a close tag with  *)
(* no open element is dropped, one that matches an outer element closes    *)
(* the inner ones, the content of script, style and title is text (that of *)
(* title with its entities read), and the end of input closes what is      *)
(* open.                                                                   *)
VoidElements == {"img", "br", "hr", "area", "base", "basefont", "input", "link", "meta",
                 "embed", "frame"}
RawTextElements == {"script", "style"}
SpecialElements == RawTextElements \cup {"title"}

RECURSIVE ClosesDownTo(_, _)
ClosesDownTo(stack, name) ==
  IF stack = <<>> THEN <<>>
  ELSE IF stack[Len(stack)] = name THEN <<Close(name)>>
  ELSE <<Close(stack[Len(stack)])>> \o ClosesDownTo(SubSeq(stack, 1, Len(stack) - 1), name)

RECURSIVE PopDownTo(_, _)
PopDownTo(stack, name) ==
  IF stack = <<>> THEN <<>>
  ELSE IF stack[Len(stack)] = name THEN SubSeq(stack, 1, Len(stack) - 1)
  ELSE PopDownTo(SubSeq(stack, 1, Len(stack) - 1), name)

RECURSIVE ParseHtml(_, _)
ParseHtml(toks, stack) ==
  IF toks = <<>> THEN ClosesDownTo(stack, "")
  ELSE
    LET t == Head(toks)
        name == ToLowerCase(t.tag)
        inRaw == stack # <<>> /\ stack[Len(stack)] \in SpecialElements
    IN
    IF inRaw /\ ~(t.k = "close" /\ name = stack[Len(stack)])
      THEN <<IF stack[Len(stack)] = "title" THEN Txt(SourceText(t)) ELSE RawText(t)>>
             \o ParseHtml(Tail(toks), stack)
    ELSE IF t.k = "text"
      THEN <<t>> \o ParseHtml(Tail(toks), stack)
    ELSE IF t.k = "open"
      THEN LET ev == Open(name, [i \in DOMAIN t.attrs |-> ToLowerCase(t.attrs[i])]) IN
           IF name \in VoidElements
             THEN <<ev, Close(name)>> \o ParseHtml(Tail(toks), stack)
             ELSE <<ev>> \o ParseHtml(Tail(toks), Append(stack, name))
    ELSE IF name \in Range(stack)
      THEN ClosesDownTo(stack, name) \o ParseHtml(Tail(toks), PopDownTo(stack, name))
      ELSE ParseHtml(Tail(toks), stack)

(* --------------------------- the sanitizer ----------------------------- *)
(* sanitizeHtml(html, options): options absent from the record take the    *)
(* sanitizer's defaults.                                                   *)
DefaultAllowedTags ==
  {"address", "article", "aside", "footer", "header", "h1", "h2", "h3", "h4", "h5",
   "h6", "hgroup", "main", "nav", "section", "blockquote", "dd", "div", "dl", "dt",
   "figcaption", "figure", "hr", "li", "ol", "p", "pre", "ul", "a", "abbr", "b",
   "bdi", "bdo", "br", "cite", "code", "data", "dfn", "em", "i", "kbd", "mark", "q",
   "rb", "rp", "rt", "rtc", "ruby", "s", "samp", "small", "span", "strong", "sub",
   "sup", "time", "u", "var", "wbr", "caption", "col", "colgroup", "table", "tbody",
   "td", "tfoot", "th", "thead", "tr"}

DefaultAllowedAttributes ==
  JsObj(<< Pair("a", JsArr(<<JsStr("href"), JsStr("name"), JsStr("target")>>)),
           Pair("img", JsArr(<<JsStr("src"), JsStr("srcset"), JsStr("alt"), JsStr("title"),
                               JsStr("width"), JsStr("height"), JsStr("loading")>>)) >>)

DefaultSelfClosing ==
  {"img", "br", "hr", "area", "base", "basefont", "input", "link", "meta"}

NonTextTags == {"script", "style", "textarea", "option"}

Has(o, k) == k \in DOMAIN o

TagAllowed(o, name) ==
  IF Has(o, "allowedTags") THEN name \in Range(Strs(o.allowedTags))
                           ELSE name \in DefaultAllowedTags

Mode(o) == IF Has(o, "disallowedTagsMode") THEN o.disallowedTagsMode.s ELSE "discard"

SelfClosing(o) ==
  IF Has(o, "selfClosing") THEN Range(Strs(o.selfClosing)) ELSE DefaultSelfClosing

AllowedAttributes(o) ==
  IF Has(o, "allowedAttributes") THEN o.allowedAttributes ELSE DefaultAllowedAttributes

(* an entry with "*" is a wildcard pattern, any other entry an exact name *)
EntryAllows(entry, a) ==
  IF "*" \in Range(Chars(entry)) THEN GlobMatch(Chars(entry), Chars(a)) ELSE entry = a

AttributeAllowed(o, name, a) ==
  \E key \in {name, "*"} :
    /\ HasKey(AllowedAttributes(o), key)
    /\ \E e \in Range(Strs(Get(AllowedAttributes(o), key))) : EntryAllows(e, a)

FilterAttributes(o, name, attribs) ==
  SelectSeq(attribs, LAMBDA a : AttributeAllowed(o, name, a))

EngineStart ==
  [result |-> <<>>, stack |-> <<>>, depth |-> 0, skipMap |-> {},
   skipText |-> FALSE, skipTextDepth |-> 0, tempResult |-> <<>>]

Discarding(o) == Mode(o) \in {"discard", "completelyDiscard"}

OnOpenTag(st, ev, o) ==
  IF st.skipText THEN [st EXCEPT !.skipTextDepth = @ + 1]
  ELSE
    LET name == ev.tag
        skip == ~TagAllowed(o, name) \/ (Mode(o) = "recursiveEscape" /\ st.skipMap # {})
        noText == skip /\ Discarding(o) /\ name \in NonTextTags
        st1 == [st EXCEPT
                  !.stack = Append(@, [tag |-> name, tagPosition |-> Len(st.result)]),
                  !.depth = @ + 1,
                  !.skipMap = IF skip THEN @ \cup {st.depth} ELSE @,
                  !.skipText = noText,
                  !.skipTextDepth = IF noText THEN 1 ELSE @]
        tag == Open(name, FilterAttributes(o, name, ev.attrs))
    IN IF skip /\ Discarding(o) THEN st1
       ELSE IF skip THEN [st1 EXCEPT !.result = Append(@, EscapedTag(tag)),
                                     !.tempResult = <<>>]
       ELSE [st1 EXCEPT !.result = Append(@, tag)]

OnText(st, ev, o) ==
  IF st.skipText THEN st
  ELSE
    LET tag == IF st.stack = <<>> THEN "" ELSE st.stack[Len(st.stack)].tag IN
    IF Mode(o) = "completelyDiscard" /\ ~TagAllowed(o, tag) THEN st
    ELSE IF Discarding(o) /\ tag \in RawTextElements
      THEN [st EXCEPT !.result = Append(@, RawText(ev))]
      ELSE [st EXCEPT !.result = Append(@, [ev EXCEPT !.k = "text"])]

Min(a, b) == IF a < b THEN a ELSE b

OnCloseTag(st, ev, o) ==
  IF st.skipText /\ st.skipTextDepth # 1
    THEN [st EXCEPT !.skipTextDepth = @ - 1]
  ELSE
    LET st0 == [st EXCEPT !.skipText = FALSE,
                          !.skipTextDepth = IF st.skipText THEN 0 ELSE @]
    IN
    IF st0.stack = <<>> \/ st0.stack[Len(st0.stack)].tag # ev.tag THEN st0
    ELSE
      LET frame == st0.stack[Len(st0.stack)]
          depth == st0.depth - 1
          skip == depth \in st0.skipMap
          st1 == [st0 EXCEPT !.stack = SubSeq(@, 1, Len(@) - 1),
                             !.depth = depth,
                             !.skipMap = @ \ {depth}]
          st2 == IF skip THEN [st1 EXCEPT !.tempResult = st1.result, !.result = <<>>]
                         ELSE st1
      IN
      IF skip /\ Discarding(o) THEN st1
      ELSE IF frame.tag \in o.exclusiveFilter
        THEN [st2 EXCEPT !.result = SubSeq(@, 1, Min(frame.tagPosition, Len(@)))]
      ELSE IF ev.tag \in SelfClosing(o)
        THEN (IF skip THEN [st2 EXCEPT !.result = st2.tempResult, !.tempResult = <<>>]
                      ELSE st2)
      ELSE IF skip
        THEN [st2 EXCEPT !.result = st2.tempResult \o <<EscapedTag(Close(ev.tag))>>,
                         !.tempResult = <<>>]
        ELSE [st2 EXCEPT !.result = Append(@, Close(ev.tag))]

RECURSIVE RunEngine(_, _, _)
RunEngine(events, st, o) ==
  IF events = <<>> THEN st
  ELSE LET ev == Head(events) IN
       RunEngine(Tail(events),
                 CASE ev.k = "open" -> OnOpenTag(st, ev, o)
                   [] ev.k = "close" -> OnCloseTag(st, ev, o)
                   [] OTHER -> OnText(st, ev, o),
                 o)

(* the text the engine writes for each item of its result: text escaped    *)
(* (& < >), script and style text as it is, an attribute with an empty     *)
(* value as its name alone, or as name="" when it is one of the engine's   *)
(* allowedEmptyAttributes, a self-closing element as "<name />", and a tag *)
(* of the escape modes with its own text escaped                           *)
AllowedEmptyAttributes == {"alt"}

AttributeText(a) ==
  <<" ">> \o Chars(a) \o (IF a \in AllowedEmptyAttributes THEN <<"=", "\"", "\"">> ELSE <<>>)

EngineEscape(cs) ==
  Flatten([i \in DOMAIN cs |->
    CASE cs[i] = "&" -> <<"&", "a", "m", "p", ";">>
      [] cs[i] = "<" -> <<"&", "l", "t", ";">>
      [] cs[i] = ">" -> <<"&", "g", "t", ";">>
      [] OTHER -> <<cs[i]>>])

TagText(tok, o) ==
  IF tok.k \in {"close", "escapedClose"} THEN <<"<", "/">> \o Chars(tok.tag) \o <<">">>
  ELSE <<"<">> \o Chars(tok.tag)
         \o Flatten([j \in DOMAIN tok.attrs |-> AttributeText(tok.attrs[j])])
         \o (IF tok.tag \in SelfClosing(o) THEN <<" ", "/", ">">> ELSE <<">">>)

Serialize(items, o) ==
  Flatten([i \in DOMAIN items |->
    CASE items[i].k = "text" -> EngineEscape(items[i].txt)
      [] items[i].k = "raw" -> items[i].txt
      [] items[i].k \in {"escaped", "escapedClose"} -> EngineEscape(TagText(items[i], o))
      [] OTHER -> TagText(items[i], o)])

EngineItems(markup, o) == RunEngine(ParseHtml(markup, <<>>), EngineStart, o).result

SanitizeHtml(markup, o) == Serialize(EngineItems(markup, o), o)

(* ------------------------------ presets -------------------------------- *)
StrSeq(ss) == SeqN([i \in DOMAIN ss |-> Plain(ss[i])])

PresetMinimal_wide ==
  Text(MapN(<<
    Pair("allowedTags", StrSeq(<<"p", "a", "strong", "em", "br", "div">>)),
    Pair("allowedAttributes", MapN(<< Pair("a", StrSeq(<<"href">>)) >>)),
    Pair("disallowedTagsMode", Plain("discard")),
    Pair("allowProtocolRelative", Plain("false")) >>))

PresetMinimal ==
  Text(MapN(<<
    Pair("allowedTags", StrSeq(<<"p", "a", "strong", "em", "br">>)),
    Pair("allowedAttributes", MapN(<< Pair("a", StrSeq(<<"href">>)) >>)),
    Pair("disallowedTagsMode", Plain("discard")),
    Pair("allowProtocolRelative", Plain("false")) >>))

PresetStandard_corrupt ==
  Text(MapN(<<
    Pair("allowedTags", Plain("p")),
    Pair("disallowedTagsMode", Plain("discard")) >>))

PresetStandard ==
  Text(MapN(<<
    Pair("allowedTags",
         StrSeq(<<"p", "a", "strong", "em", "b", "i", "u", "br", "ul", "ol", "li",
                  "h1", "h2", "h3", "h4", "h5", "h6", "img", "table", "thead",
                  "tbody", "tr", "th", "td">>)),
    Pair("allowedAttributes",
         MapN(<< Pair("a", StrSeq(<<"href", "title", "target">>)),
                 Pair("img", StrSeq(<<"src", "alt", "width", "height">>)),
                 Pair("td", StrSeq(<<"colspan", "rowspan">>)),
                 Pair("th", StrSeq(<<"colspan", "rowspan">>)) >>)),
    Pair("selfClosing", StrSeq(<<"img", "br", "hr">>)),
    Pair("disallowedTagsMode", Plain("discard")),
    Pair("allowProtocolRelative", Plain("false")) >>))

PresetPermissive ==
  Text(MapN(<<
    Pair("allowedTags",
         StrSeq(<<"p", "a", "strong", "em", "b", "i", "u", "br", "ul", "ol", "li",
                  "h1", "h2", "h3", "h4", "h5", "h6", "img", "table", "thead",
                  "tbody", "tr", "th", "td", "div", "span", "code", "pre",
                  "blockquote", "hr", "sub", "sup">>)),
    Pair("allowedAttributes",
         MapN(<< Pair("a", StrSeq(<<"href", "title", "target">>)),
                 Pair("img", StrSeq(<<"src", "alt", "width", "height">>)),
                 Pair("td", StrSeq(<<"colspan", "rowspan">>)),
                 Pair("th", StrSeq(<<"colspan", "rowspan">>)),
                 Pair("div", StrSeq(<<"class">>)),
                 Pair("span", StrSeq(<<"class">>)),
                 Pair("code", StrSeq(<<"class">>)),
                 Pair("pre", StrSeq(<<"class">>)) >>)),
    Pair("allowedClasses",
         MapN(<< Pair("div", StrSeq(<<"container", "wrapper", "content">>)),
                 Pair("span", StrSeq(<<"highlight", "note">>)),
                 Pair("code", StrSeq(<<"language-javascript", "language-typescript",
                                       "language-python", "language-html",
                                       "language-css">>)) >>)),
    Pair("selfClosing", StrSeq(<<"img", "br", "hr">>)),
    Pair("disallowedTagsMode", Plain("discard")),
    Pair("allowProtocolRelative", Plain("false")) >>))

Presets == {PresetMinimal, PresetStandard, PresetPermissive}

(* export const presets, as the module is loaded *)
PresetsLoaded ==
  [minimal |-> PresetMinimal, standard |-> PresetStandard, permissive |-> PresetPermissive]

(* ------------------ policy texts given to parseSetup ------------------- *)
ParseKeys == SchemaNames \cup {"unknownProperty"}

StringList == SeqN(<<Plain("p"), Plain("script")>>)

ParseValues(key) ==
  CASE key = "allowedTags" ->
         {StringList, SeqN(<<Plain("p"), Plain("1")>>), Plain("not-an-array"),
          Plain(""), Alias("x")}
    [] key = "allowedAttributes" ->
         {MapN(<<Pair("a", SeqN(<<Plain("href"), Plain("onclick")>>))>>),
          MapN(<<Pair("a", Plain("href"))>>), StringList}
    [] key = "allowedClasses" ->
         {MapN(<<Pair("p", SeqN(<<Plain("intro")>>))>>), Plain("false")}
    [] key = "disallowedTagsMode" ->
         {Plain(DisallowedTagsModes[i]) : i \in DOMAIN DisallowedTagsModes}
         \cup {Plain("invalid"), Plain("true")}
    [] key = "selfClosing" -> {SeqN(<<Plain("img")>>), Unclosed}
    [] key = "allowProtocolRelative" -> {Plain("false"), Quoted("false")}
    [] OTHER -> {Plain("true"), StringList}

ParseEntries == UNION {{Pair(k, v) : v \in ParseValues(k)} : k \in ParseKeys}

ParseDocs ==
  {MapN(es) : es \in SeqsUpTo(ParseEntries, MaxEntries)}
  \cup {EmptyDoc, Plain("hello"), SeqN(<<Plain("p")>>), Alias("x"), Unclosed}

ParseTexts ==
  {[pad |-> p, trap |-> "none", contents |-> c] : p \in 0..MaxPad, c \in ParseDocs}
  \cup {[pad |-> 0, trap |-> t, contents |-> EmptyDoc] : t \in {"Error", "nonError"}}
  \cup Presets

(* ------------------------- parseSetup as a call ------------------------ *)
InitParse ==
  /\ pc = "parseSetup"
  /\ yamlString \in ParseTexts
  /\ html = <<>> /\ options = None
  /\ validateErrors = <<>>
  /\ warnings = <<>> /\ config = None /\ sanitizeOptions = None
  /\ result = <<>> /\ ret = None
  /\ presets = PresetsLoaded

ParseSetupCall ==
  /\ pc = "parseSetup"
  /\ LET r == ParseSetup(yamlString, validateErrors) IN
       /\ pc' = IF r.thrown THEN "thrown" ELSE "returned"
       /\ ret' = r.value
       /\ validateErrors' = r.errors
  /\ UNCHANGED <<presets, yamlString, html, options, warnings, config, sanitizeOptions, result>>

NextParse == ParseSetupCall

SpecParse == InitParse /\ [][NextParse]_vars

(* -------------------------------- wash --------------------------------- *)
ALWAYS_BLOCKED_short ==
  <<"script", "style", "iframe", "object", "embed", "applet", "frame">>

ALWAYS_BLOCKED ==
  <<"script", "style", "iframe", "object", "embed", "applet", "frame", "frameset">>

Includes(seq, x) == \E i \in DOMAIN seq : seq[i] = x

(* every tag name a frame of the model can carry *)
TagNames ==
  DefaultAllowedTags
    \cup {"script", "style", "iframe", "object", "embed", "applet", "frame", "frameset",
          "img", "title", "head", "body", "html", "noscript", "form", "svg"}

(* exclusiveFilter: (frame) => ALWAYS_BLOCKED.includes(frame.tag), as the  *)
(* set of tag names it is true for                                         *)
ExclusiveFilter(cfg) == {t \in TagNames : Includes(ALWAYS_BLOCKED, t)}

FilterEventHandlers_exact(attrs) ==
  JsObj([i \in DOMAIN attrs.m |->
    Pair(attrs.m[i].key,
         JsArr(SelectSeq(attrs.m[i].val.items,
                         LAMBDA attr : ~StartsWith(Chars(attr.s), <<"o", "n">>))))])

FilterEventHandlers(attrs) ==
  JsObj([i \in DOMAIN attrs.m |->
    Pair(attrs.m[i].key,
         JsArr(SelectSeq(attrs.m[i].val.items,
                         LAMBDA attr : ~StartsWith(LowerChars(Chars(attr.s)), <<"o", "n">>))))])

BuildOptions_truthy(cfg) ==
  [k \in {"exclusiveFilter"}
          \cup {f \in SchemaNames :
                  HasKey(cfg, f) /\ Get(cfg, f) # JsBool("false") /\ Get(cfg, f) # JsArr(<<>>)} |->
     CASE k = "exclusiveFilter" -> ExclusiveFilter(cfg)
       [] k = "allowedAttributes" -> FilterEventHandlers(Get(cfg, k))
       [] OTHER -> Get(cfg, k)]

(* lines 48-71: the exclusion rule, and each policy field that is present  *)
BuildOptions(cfg) ==
  [k \in {"exclusiveFilter"} \cup {f \in SchemaNames : HasKey(cfg, f)} |->
     CASE k = "exclusiveFilter" -> ExclusiveFilter(cfg)
       [] k = "allowedAttributes" -> FilterEventHandlers(Get(cfg, k))
       [] OTHER -> Get(cfg, k)]

ReplaceAll(cs, c, rep) == Flatten([i \in DOMAIN cs |-> IF cs[i] = c THEN rep ELSE <<cs[i]>>])

EscapeHtml(text) ==
  ReplaceAll(ReplaceAll(ReplaceAll(ReplaceAll(ReplaceAll(text,
    "&", <<"&", "a", "m", "p", ";">>),
    "<", <<"&", "l", "t", ";">>),
    ">", <<"&", "g", "t", ";">>),
    "\"", <<"&", "q", "u", "o", "t", ";">>),
    "'", <<"&", "#", "3", "9", ";">>)

(* ---- regular expressions and String.replace, on character strings ----- *)
IsSpace(c) == c \in {" ", "\n", "\t"}

MatchesAt_sensitive(cs, i, pat) ==
  /\ i >= 1 /\ i + Len(pat) - 1 <= Len(cs)
  /\ \A k \in DOMAIN pat : cs[i + k - 1] = pat[k]

(* the lower-case text pat at position i of cs, letter case ignored *)
MatchesAt(cs, i, pat) ==
  /\ i >= 1 /\ i + Len(pat) - 1 <= Len(cs)
  /\ \A k \in DOMAIN pat : LowerChar(cs[i + k - 1]) = pat[k]

(* index of the first c at or after i, 0 when there is none *)
IndexFrom(cs, c, i) ==
  IF \E j \in i..Len(cs) : cs[j] = c
    THEN CHOOSE j \in i..Len(cs) : cs[j] = c /\ \A k \in i..(j - 1) : cs[k] # c
    ELSE 0

(* /<name[^>]*>/i matches at i *)
OpenTagAt(cs, i, name) ==
  MatchesAt(cs, i, <<"<">> \o name) /\ IndexFrom(cs, ">", i + Len(name) + 1) # 0

(* start of the leftmost match of /<name[^>]*>/i, 0 when there is none *)
FirstOpenTag(cs, name) ==
  IF \E i \in DOMAIN cs : OpenTagAt(cs, i, name)
    THEN CHOOSE i \in DOMAIN cs :
           OpenTagAt(cs, i, name) /\ \A j \in 1..(i - 1) : ~OpenTagAt(cs, j, name)
    ELSE 0

Digits == {"0", "1", "2", "3", "4", "5", "6", "7", "8", "9"}
DigitVal(c) ==
  CASE c = "0" -> 0 [] c = "1" -> 1 [] c = "2" -> 2 [] c = "3" -> 3 [] c = "4" -> 4
    [] c = "5" -> 5 [] c = "6" -> 6 [] c = "7" -> 7 [] c = "8" -> 8 [] c = "9" -> 9

(* the grave accent character, which a TLA+ string cannot hold alone *)
Backtick == "grave"

(* the replacement text of String.replace: $$ is "$", $& the match, $ and  *)
(* a grave accent the text before it, $' the text after it, $n and $nn a   *)
(* capture group when the pattern has that many groups; any other "$"      *)
(* stands for itself                                                       *)
RECURSIVE Substitute(_, _, _, _, _)
Substitute(repl, matched, before, after, captures) ==
  IF repl = <<>> THEN <<>>
  ELSE IF Head(repl) # "$" \/ Len(repl) = 1
    THEN <<Head(repl)>> \o Substitute(Tail(repl), matched, before, after, captures)
  ELSE
    LET c == repl[2]
        from3 == SubSeq(repl, 3, Len(repl))
        from4 == SubSeq(repl, 4, Len(repl))
    IN
    IF c = "$" THEN <<"$">> \o Substitute(from3, matched, before, after, captures)
    ELSE IF c = "&" THEN matched \o Substitute(from3, matched, before, after, captures)
    ELSE IF c = Backtick THEN before \o Substitute(from3, matched, before, after, captures)
    ELSE IF c = "'" THEN after \o Substitute(from3, matched, before, after, captures)
    ELSE IF /\ c \in Digits /\ Len(repl) >= 3 /\ repl[3] \in Digits
            /\ 10 * DigitVal(c) + DigitVal(repl[3]) \in DOMAIN captures
      THEN captures[10 * DigitVal(c) + DigitVal(repl[3])]
             \o Substitute(from4, matched, before, after, captures)
    ELSE IF c \in Digits /\ DigitVal(c) \in DOMAIN captures
      THEN captures[DigitVal(c)] \o Substitute(from3, matched, before, after, captures)
    ELSE <<"$">> \o Substitute(Tail(repl), matched, before, after, captures)

(* ------------------------------ ensureTitle ---------------------------- *)
TitleElement(title) ==
  <<"<", "t", "i", "t", "l", "e", ">">> \o EscapeHtml(title)
    \o <<"<", "/", "t", "i", "t", "l", "e", ">">>

(* title: None when it is not given, else Str(its characters) *)
EnsureTitle(markup, title) ==
  IF title = None \/ title.chars = <<>> THEN markup
  ELSE IF FirstOpenTag(markup, <<"t", "i", "t", "l", "e">>) # 0 THEN markup
  ELSE IF FirstOpenTag(markup, <<"h", "e", "a", "d">>) # 0
    THEN LET i == FirstOpenTag(markup, <<"h", "e", "a", "d">>)
             e == IndexFrom(markup, ">", i + 5)
             before == SubSeq(markup, 1, i - 1)
             after == SubSeq(markup, e + 1, Len(markup))
             repl == <<"<", "h", "e", "a", "d", "$", "1", ">">> \o TitleElement(title.chars)
         IN before
              \o Substitute(repl, SubSeq(markup, i, e), before, after,
                            <<SubSeq(markup, i + 5, e - 1)>>)
              \o after
  ELSE TitleElement(title.chars) \o markup

(* ----------------------------- ensureImageAlt -------------------------- *)
(* (?![^>]*\salt(?:=|\s|>)) fails at i: after any characters other than    *)
(* ">" comes white space, "alt" in any letter case, and "=", white space   *)
(* or ">"                                                                  *)
AltAhead(cs, i) ==
  \E j \in i..Len(cs) :
    /\ \A k \in i..(j - 1) : cs[k] # ">"
    /\ IsSpace(cs[j])
    /\ MatchesAt(cs, j + 1, <<"a", "l", "t">>)
    /\ j + 4 <= Len(cs)
    /\ (cs[j + 4] \in {"=", ">"} \/ IsSpace(cs[j + 4]))

(* imgWithoutAlt matches at i *)
ImgWithoutAlt(cs, i) ==
  /\ MatchesAt(cs, i, <<"<", "i", "m", "g">>)
  /\ ~AltAhead(cs, i + 4)
  /\ IndexFrom(cs, ">", i + 4) # 0

(* html.match(imgWithoutAlt): the matches from position i on, in order *)
RECURSIVE ImgMatches(_, _)
ImgMatches(cs, i) ==
  IF i > Len(cs) THEN <<>>
  ELSE IF ImgWithoutAlt(cs, i)
    THEN LET e == IndexFrom(cs, ">", i + 4) IN
         <<SubSeq(cs, i, e)>> \o ImgMatches(cs, e + 1)
    ELSE ImgMatches(cs, i + 1)

(* start of the first occurrence of the text sub, 0 when there is none *)
OccursAt(cs, i, sub) == i + Len(sub) - 1 <= Len(cs) /\ SubSeq(cs, i, i + Len(sub) - 1) = sub

IndexOf(cs, sub) ==
  IF \E i \in DOMAIN cs : OccursAt(cs, i, sub)
    THEN CHOOSE i \in DOMAIN cs :
           OccursAt(cs, i, sub) /\ \A j \in 1..(i - 1) : ~OccursAt(cs, j, sub)
    ELSE 0

(* cs.replace(sub, repl) with a text pattern: the first occurrence only *)
ReplaceFirst(cs, sub, repl) ==
  LET i == IndexOf(cs, sub)
      before == SubSeq(cs, 1, i - 1)
      after == SubSeq(cs, i + Len(sub), Len(cs))
  IN IF i = 0 THEN cs
     ELSE before \o Substitute(repl, sub, before, after, <<>>) \o after

AltWarning == <<"Image(s) found without alt attribute, empty alt added">>

RECURSIVE FixImages(_, _)
FixImages(modified, matches) ==
  IF matches = <<>> THEN modified
  ELSE LET originalImg == Head(matches)
           fixedImg == SubSeq(originalImg, 1, Len(originalImg) - 1)
                         \o <<" ", "a", "l", "t", "=", "\"", "\"", ">">>
       IN FixImages(ReplaceFirst(modified, originalImg, fixedImg), Tail(matches))

EnsureImageAlt_perImage(markup, warns) ==
  LET matches == ImgMatches(markup, 1) IN
  [html |-> FixImages(markup, matches),
   warnings |-> warns \o [k \in DOMAIN matches |-> AltWarning]]

EnsureImageAlt(markup, warns) ==
  LET matches == ImgMatches(markup, 1) IN
  IF matches = <<>>
    THEN [html |-> markup, warnings |-> warns]
    ELSE [html |-> FixImages(markup, matches), warnings |-> Append(warns, AltWarning)]

(* ------------------- the markup parser's tokenizer --------------------- *)
(* From position i inside a tag: the index of the ">" that closes the tag  *)
(* (0 when none does) and the lower-case attribute names.  A ">" inside a  *)
(* quoted value does not close the tag; names end at white space, "/",     *)
(* "=" or ">".                                                             *)
RECURSIVE ScanAttrs(_, _, _, _, _)
ScanAttrs(cs, i, mode, cur, names) ==
  IF i > Len(cs) THEN [to |-> 0, names |-> names]
  ELSE
    LET c == cs[i] IN
    CASE mode = "between" ->
           IF c = ">" THEN [to |-> i, names |-> names]
           ELSE IF IsSpace(c) \/ c = "/" THEN ScanAttrs(cs, i + 1, "between", <<>>, names)
           ELSE ScanAttrs(cs, i + 1, "name", <<LowerChar(c)>>, names)
      [] mode = "name" ->
           IF c = ">" THEN [to |-> i, names |-> Append(names, cur)]
           ELSE IF IsSpace(c) \/ c = "/"
             THEN ScanAttrs(cs, i + 1, "between", <<>>, Append(names, cur))
           ELSE IF c = "=" THEN ScanAttrs(cs, i + 1, "value", <<>>, Append(names, cur))
           ELSE ScanAttrs(cs, i + 1, "name", Append(cur, LowerChar(c)), names)
      [] mode = "value" ->
           IF c = ">" THEN [to |-> i, names |-> names]
           ELSE IF c = "\"" THEN ScanAttrs(cs, i + 1, "double", <<>>, names)
           ELSE IF c = "'" THEN ScanAttrs(cs, i + 1, "single", <<>>, names)
           ELSE IF IsSpace(c) THEN ScanAttrs(cs, i + 1, "value", <<>>, names)
           ELSE ScanAttrs(cs, i + 1, "unquoted", <<>>, names)
      [] mode = "double" ->
           ScanAttrs(cs, i + 1, IF c = "\"" THEN "between" ELSE "double", <<>>, names)
      [] mode = "single" ->
           ScanAttrs(cs, i + 1, IF c = "'" THEN "between" ELSE "single", <<>>, names)
      [] OTHER ->
           IF c = ">" THEN [to |-> i, names |-> names]
           ELSE ScanAttrs(cs, i + 1, IF IsSpace(c) THEN "between" ELSE "unquoted", <<>>, names)

IsDelimiter(c) == IsSpace(c) \/ c \in {"/", ">"}

(* the string of the model that is spelled cs: a name the model knows, in  *)
(* lower case when only that is known, and "?" for any other text          *)
Names ==
  TagNames \cup {"img-x", "href", "src", "alt", "onclick", "onload", "on", "class"}

NameOf(cs) ==
  IF \E n \in Names : Chars(n) = cs THEN CHOOSE n \in Names : Chars(n) = cs
  ELSE IF \E n \in Names : Chars(n) = LowerChars(cs)
    THEN CHOOSE n \in Names : Chars(n) = LowerChars(cs)
  ELSE IF Len(cs) = 1 THEN cs[1]
  ELSE "?"

NotLetters ==
  {" ", "\n", "\t", "<", ">", "/", "&", "=", "\"", "'", "$", ";", "-", "*", "#", "!", "?",
   Backtick} \cup Digits

(* a tag starts at i: "<" and a letter, or "</" and a letter *)
TagStart(cs, i) == i + 1 <= Len(cs) /\ cs[i] = "<" /\ cs[i + 1] \notin NotLetters
CloseStart(cs, i) ==
  i + 2 <= Len(cs) /\ cs[i] = "<" /\ cs[i + 1] = "/" /\ cs[i + 2] \notin NotLetters

(* first index from i on where a tag name ends, Len(cs) + 1 when none *)
NameEnd(cs, i) ==
  IF \E j \in i..Len(cs) : IsDelimiter(cs[j])
    THEN CHOOSE j \in i..Len(cs) : IsDelimiter(cs[j]) /\ \A k \in i..(j - 1) : ~IsDelimiter(cs[k])
    ELSE Len(cs) + 1

(* the character references the outputs of wash hold *)
References ==
  { [text |-> <<"&", "a", "m", "p", ";">>, char |-> "&"],
    [text |-> <<"&", "l", "t", ";">>, char |-> "<"],
    [text |-> <<"&", "g", "t", ";">>, char |-> ">"],
    [text |-> <<"&", "q", "u", "o", "t", ";">>, char |-> "\""],
    [text |-> <<"&", "#", "3", "9", ";">>, char |-> "'"] }

(* an attribute named twice counts once, the first time *)
RECURSIVE FirstOnly(_)
FirstOnly(names) ==
  IF names = <<>> THEN <<>>
  ELSE LET init == FirstOnly(SubSeq(names, 1, Len(names) - 1))
           last == names[Len(names)]
       IN IF \E k \in DOMAIN init : init[k] = last THEN init ELSE Append(init, last)

TextToken(text) == IF text = <<>> THEN <<>> ELSE <<Txt(text)>>

(* the tokens of the text cs from position i on, text being the characters *)
(* read since the last tag; attribute values are read and not kept, and a  *)
(* tag that the text ends in the middle of is dropped                      *)
RECURSIVE Tokens(_, _, _)
Tokens(cs, i, text) ==
  IF i > Len(cs) THEN TextToken(text)
  ELSE IF TagStart(cs, i)
    THEN LET j == NameEnd(cs, i + 1)
             scan == ScanAttrs(cs, j, "between", <<>>, <<>>)
             names == FirstOnly(scan.names)
         IN IF j > Len(cs) \/ scan.to = 0 THEN TextToken(text)
            ELSE TextToken(text)
                   \o <<Open(NameOf(SubSeq(cs, i + 1, j - 1)),
                            [k \in DOMAIN names |-> NameOf(names[k])])>>
                   \o Tokens(cs, scan.to + 1, <<>>)
  ELSE IF CloseStart(cs, i)
    THEN LET e == IndexFrom(cs, ">", i) IN
         IF e = 0 THEN TextToken(text)
         ELSE TextToken(text)
                \o <<Close(NameOf(SubSeq(cs, i + 2, NameEnd(cs, i + 2) - 1)))>>
                \o Tokens(cs, e + 1, <<>>)
  ELSE IF \E r \in References : OccursAt(cs, i, r.text)
    THEN LET r == CHOOSE r \in References : OccursAt(cs, i, r.text) IN
         Tokens(cs, i + Len(r.text), Append(text, r.char))
  ELSE Tokens(cs, i + 1, Append(text, cs[i]))

Tokenize(cs) == Tokens(cs, 1, <<>>)

(* ---------------------------- wash's inputs ---------------------------- *)
HtmlTags ==
  {"script", "style", "iframe", "object", "embed", "applet", "frame", "frameset",
   "SCRIPT", "p", "a", "img", "title", "head", "header"}
HtmlAttrs == {<<>>, <<"ONCLICK", "href">>}

RECURSIVE Nest(_, _, _)
Nest(tag, attrs, d) ==
  <<Open(tag, attrs)>>
    \o (IF d <= 1 THEN <<Txt(<<"x">>)>> ELSE Nest(tag, attrs, d - 1))
    \o <<Close(tag)>>

Htmls ==
  { around[1] \o Nest(tag, attrs, d) \o around[2] :
      around \in {<< <<>>, <<>> >>,
                  << <<Open("p", <<>>)>>, <<Open("img", <<"src">>), Open("img", <<"src">>)>> >>},
      tag \in HtmlTags, attrs \in HtmlAttrs, d \in 1..MaxDepth }

PolicyTags ==
  {<<"p">>,
   <<"p", "a", "img", "title", "head", "script", "style", "iframe", "object", "embed",
     "applet", "frame", "frameset">>}

PolicyAttributes ==
  { MapN(<<Pair("a", StrSeq(<<"href">>))>>),
    MapN(<<Pair("a", StrSeq(<<"onclick", "href", "OnLoad">>)), Pair("img", StrSeq(<<"on">>))>>),
    MapN(<<Pair("*", StrSeq(<<"ONCLICK">>))>>),
    MapN(<<Pair("a", StrSeq(<<"o*">>))>>),
    MapN(<<Pair("*", StrSeq(<<"*">>))>>) }

Optional(key, values) == {<<>>} \cup {<<Pair(key, v)>> : v \in values}

Policies ==
  { Text(MapN(t \o a \o m)) :
      t \in Optional("allowedTags", {StrSeq(ts) : ts \in PolicyTags}),
      a \in Optional("allowedAttributes", PolicyAttributes),
      m \in Optional("disallowedTagsMode",
                     {Plain(DisallowedTagsModes[i]) : i \in DOMAIN DisallowedTagsModes}) }

BadSetups ==
  { Text(EmptyDoc),
    Text(MapN(<<Pair("invalid", Unclosed)>>)),
    Text(MapN(<<Pair("unknownProperty", Plain("true"))>>)),
    Text(MapN(<<Pair("allowedTags", Plain("not-an-array"))>>)),
    Text(MapN(<<Pair("allowedTags", Alias("x"))>>)) }

Titles == {None, Str(<<"T", "<", "&">>), Str(<<"$", "&">>)}

WashOptions ==
  {None} \cup [setup : {None, PresetStandard} \cup Policies \cup BadSetups, title : Titles]

(* ------------------------- wash, step by step -------------------------- *)
Init ==
  /\ pc = "wash"
  /\ html \in Htmls
  /\ options \in WashOptions
  /\ yamlString = None
  /\ validateErrors = <<>>
  /\ warnings = <<>> /\ config = None /\ sanitizeOptions = None
  /\ result = <<>> /\ ret = None
  /\ presets = PresetsLoaded

SetupWarning(parsed) == <<"Setup error: ">> \o parsed.errorMessage

(* lines 36-44: the policy used *)
ResolveConfig_empty(parsed, fallback) ==
  IF parsed.ok THEN parsed.config ELSE JsObj(<<>>)

ResolveConfig_filtered(parsed, fallback) ==
  LET c == IF parsed.ok THEN parsed.config ELSE fallback.config IN
  JsObj([i \in DOMAIN c.m |->
    IF c.m[i].key = "allowedAttributes"
      THEN Pair(c.m[i].key, FilterEventHandlers(c.m[i].val))
      ELSE c.m[i]])

ResolveConfig(parsed, fallback) ==
  IF parsed.ok THEN parsed.config
  ELSE IF fallback.ok THEN fallback.config ELSE JsObj(<<>>)

(* lines 33: options?.setup ?? presets.standard *)
SetupYaml_minimal(o) ==
  IF o # None /\ o.setup # None THEN o.setup ELSE presets.minimal

SetupYaml(o) ==
  IF o # None /\ o.setup # None THEN o.setup ELSE presets.standard

(* lines 30-44 *)
WashParse ==
  /\ pc = "wash"
  /\ LET setupYaml == SetupYaml(options)
         p == ParseSetup(setupYaml, validateErrors)
         f == ParseSetup(presets.standard, p.errors)
     IN /\ yamlString' = setupYaml
        /\ IF p.thrown
             THEN /\ pc' = "thrown" /\ ret' = p.value /\ validateErrors' = p.errors
                  /\ UNCHANGED <<warnings, config>>
           ELSE IF p.value.ok
             THEN /\ pc' = "config" /\ config' = ResolveConfig(p.value, p.value)
                  /\ validateErrors' = p.errors
                  /\ UNCHANGED <<warnings, ret>>
           ELSE IF f.thrown
             THEN /\ pc' = "thrown" /\ ret' = f.value /\ validateErrors' = f.errors
                  /\ warnings' = Append(warnings, SetupWarning(p.value))
                  /\ UNCHANGED config
           ELSE /\ pc' = "config"
                /\ warnings' = Append(warnings, SetupWarning(p.value))
                /\ config' = ResolveConfig(p.value, f.value)
                /\ validateErrors' = f.errors
                /\ UNCHANGED ret
  /\ UNCHANGED <<presets, html, options, sanitizeOptions, result>>

(* lines 48-71 *)
WashBuildOptions ==
  /\ pc = "config"
  /\ sanitizeOptions' = BuildOptions(config)
  /\ pc' = "options"
  /\ UNCHANGED <<presets, yamlString, html, options, validateErrors, warnings, config, result, ret>>

(* line 74 *)
WashSanitize ==
  /\ pc = "options"
  /\ result' = SanitizeHtml(html, sanitizeOptions)
  /\ pc' = "sanitized"
  /\ UNCHANGED <<presets, yamlString, html, options, validateErrors, warnings, config,
                 sanitizeOptions, ret>>

(* line 77, with the engine run again on what ensureTitle returns *)
WashEnsureTitle_resanitized ==
  /\ pc = "sanitized"
  /\ result' = SanitizeHtml(
                 Tokenize(EnsureTitle(result, IF options = None THEN None ELSE options.title)),
                 sanitizeOptions)
  /\ pc' = "titled"
  /\ UNCHANGED <<presets, yamlString, html, options, validateErrors, warnings, config,
                 sanitizeOptions, ret>>

(* line 77 *)
WashEnsureTitle ==
  /\ pc = "sanitized"
  /\ result' = EnsureTitle(result, IF options = None THEN None ELSE options.title)
  /\ pc' = "titled"
  /\ UNCHANGED <<presets, yamlString, html, options, validateErrors, warnings, config,
                 sanitizeOptions, ret>>

(* line 78 *)
WashEnsureImageAlt ==
  /\ pc = "titled"
  /\ LET r == EnsureImageAlt(result, warnings) IN
       result' = r.html /\ warnings' = r.warnings
  /\ pc' = "alt"
  /\ UNCHANGED <<presets, yamlString, html, options, validateErrors, config, sanitizeOptions, ret>>

(* line 80 *)
WashReturn ==
  /\ pc = "alt"
  /\ ret' = [html |-> result, warnings |-> warnings]
  /\ pc' = "done"
  /\ UNCHANGED <<presets, yamlString, html, options, validateErrors, warnings, config,
                 sanitizeOptions, result>>

(* wash as one call: what it returns or throws, and validate.errors after  *)
(* it, prev being validate.errors before it                                *)
Wash(markup, o, prev) ==
  LET p == ParseSetup(SetupYaml(o), prev)
      f == ParseSetup(presets.standard, p.errors)
  IN IF p.thrown THEN p
     ELSE IF ~p.value.ok /\ f.thrown THEN f
     ELSE LET w == IF p.value.ok THEN <<>> ELSE <<SetupWarning(p.value)>>
              clean == SanitizeHtml(markup, BuildOptions(ResolveConfig(p.value, f.value)))
              titled == EnsureTitle(clean, IF o = None THEN None ELSE o.title)
          IN Returned(EnsureImageAlt(titled, w), IF p.value.ok THEN p.errors ELSE f.errors)

Next ==
  \/ WashParse
  \/ WashBuildOptions
  \/ WashSanitize
  \/ WashEnsureTitle
  \/ WashEnsureImageAlt
  \/ WashReturn

Spec == Init /\ [][Next]_vars

(* ------ ensureTitle and ensureImageAlt as functions of a text ---------- *)
MaxPieces == 3

TitlePieces ==
  { <<"<", "h", "e", "a", "d", ">">>,
    <<"<", "H", "E", "A", "D", " ", "a", ">">>,
    <<"<", "h", "e", "a", "d", "e", "r", ">">>,
    <<"<", "T", "i", "T", "l", "e", ">">>,
    <<"<", "t", "i">>,
    <<"x">>,
    <<"<", "p", ">">>,
    <<"<", "/", "t", "i", "t", "l", "e", ">">> }

TitleTexts ==
  { None,
    Str(<<>>),
    Str(<<"T">>),
    Str(<<"<", "&", ">", "\"", "'">>),
    Str(<<"$", "&">>),
    Str(<<"$", "1">>),
    Str(<<"$", "$">>),
    Str(<<"$", Backtick, "t", "l", "e", " ">>),
    Str(<<"a", "$">>) }

ImgPieces ==
  { <<"<", "i", "m", "g", ">">>,
    <<"<", "i", "m", "g", " ", "s", "r", "c", "=", "\"", "a", "\"", ">">>,
    <<"<", "I", "M", "G", " ", "S", "R", "C", "=", "a", ">">>,
    <<"<", "i", "m", "g", " ", "a", "l", "t", "=", "\"", "t", "\"", ">">>,
    <<"<", "i", "m", "g", " ", "A", "L", "T", ">">>,
    <<"<", "i", "m", "g", " ", "a", "l", "t", "/", ">">>,
    <<"<", "i", "m", "g", " ", "t", "i", "t", "l", "e", "=", "\"", " ", "a", "l", "t", "=", "\"", ">">>,
    <<"<", "i", "m", "g", " ", "s", "r", "c", "=", "\"", "a", ">", "b", "\"", ">">>,
    <<"<", "i", "m", "g", " ", "s", "r", "c", "=", "\"", "$", "&", "\"", ">">>,
    <<"<", "i", "m", "g", " ", "s", "r", "c", " ", "/", ">">>,
    <<"<", "i", "m", "g", "-", "x", ">">>,
    <<"<", "p", ">">>,
    <<"x">> }

(* the warnings list ensureImageAlt is given: empty, or the setup warning *)
EarlierWarnings == {<<>>, << <<"Setup error: ", "must be object">> >>}

(* the texts made of up to MaxPieces pieces *)
Texts(pieces) == {Flatten(ps) : ps \in SeqsUpTo(pieces, MaxPieces)}

InitText ==
  /\ \/ pc = "ensureTitle" /\ html \in Texts(TitlePieces)
          /\ options \in [setup : {None}, title : TitleTexts]
          /\ warnings = <<>>
     \/ pc = "ensureImageAlt" /\ html \in Texts(ImgPieces)
          /\ options \in [setup : {None}, title : {None}]
          /\ warnings \in EarlierWarnings
  /\ yamlString = None
  /\ validateErrors = <<>>
  /\ config = None /\ sanitizeOptions = None
  /\ result = <<>> /\ ret = None
  /\ presets = PresetsLoaded

EnsureTitleCall ==
  /\ pc = "ensureTitle"
  /\ result' = EnsureTitle(html, options.title)
  /\ pc' = "titleReturned"
  /\ UNCHANGED <<presets, yamlString, html, options, validateErrors, warnings, config,
                 sanitizeOptions, ret>>

EnsureImageAltCall ==
  /\ pc = "ensureImageAlt"
  /\ LET r == EnsureImageAlt(html, warnings) IN
       result' = r.html /\ warnings' = r.warnings
  /\ pc' = "altReturned"
  /\ UNCHANGED <<presets, yamlString, html, options, validateErrors, config, sanitizeOptions, ret>>

(* the function applied to what it returned, with the same title *)
EnsureTitleAgain ==
  /\ pc = "titleReturned"
  /\ ret' = EnsureTitle(result, options.title)
  /\ pc' = "titleAgain"
  /\ UNCHANGED <<presets, yamlString, html, options, validateErrors, warnings, config,
                 sanitizeOptions, result>>

(* the function applied to what it returned, with the warnings list it left *)
EnsureImageAltAgain ==
  /\ pc = "altReturned"
  /\ ret' = EnsureImageAlt(result, warnings)
  /\ pc' = "altAgain"
  /\ UNCHANGED <<presets, yamlString, html, options, validateErrors, warnings, config,
                 sanitizeOptions, result>>

NextText ==
  \/ EnsureTitleCall
  \/ EnsureImageAltCall
  \/ EnsureTitleAgain
  \/ EnsureImageAltAgain

SpecText == InitText /\ [][NextText]_vars

(* ---------- a process that calls wash and parseSetup in turn ----------- *)
CallHtmls ==
  { <<Open("p", <<>>), Txt(<<"x">>), Close("p")>>,
    <<Open("p", <<>>), Open("img", <<"src">>), Open("img", <<"src">>)>>,
    <<Open("img", <<"alt", "src">>)>>,
    <<Open("img-x", <<>>), Txt(<<"x">>), Close("img-x")>>,
    <<Open("head", <<>>), Txt(<<"x">>), Close("head")>>,
    <<Open("title", <<>>), Txt(<<"x">>), Close("title")>>,
    <<Open("a", <<"ONCLICK", "href">>), Txt(<<"x">>), Close("a")>>,
    <<Open("script", <<>>), Txt(<<"x">>), Close("script"), Open("p", <<>>), Txt(<<"x">>)>> }

CallPolicies ==
  { Text(MapN(<<>>)),
    Text(MapN(<<Pair("allowedTags", StrSeq(<<>>))>>)),
    Text(MapN(<<
      Pair("allowedTags", StrSeq(<<"p", "a", "img", "img-x", "title", "head", "script">>)),
      Pair("allowedAttributes",
           MapN(<< Pair("a", StrSeq(<<"onclick", "href", "OnLoad", "href">>)),
                   Pair("img", StrSeq(<<"on">>)),
                   Pair("onclick", StrSeq(<<"src", "ONCLICK", "alt">>)) >>)),
      Pair("selfClosing", StrSeq(<<>>)),
      Pair("allowProtocolRelative", Plain("false")) >>)),
    Text(MapN(<<
      Pair("allowedClasses", MapN(<<Pair("p", StrSeq(<<"intro">>))>>)),
      Pair("disallowedTagsMode", Plain("escape")),
      Pair("selfClosing", StrSeq(<<"img">>)),
      Pair("allowProtocolRelative", Plain("true")) >>)),
    Text(MapN(<<
      Pair("allowedTags", StrSeq(<<"img", "p">>)),
      Pair("allowedAttributes", MapN(<<>>)) >>)) }

CallSetups == {None} \cup Presets \cup CallPolicies \cup BadSetups

CallOptions == {None} \cup [setup : CallSetups, title : {None, Str(<<"T", "<", "&">>)}]

CallTexts == Presets \cup CallPolicies \cup BadSetups

InitCalls ==
  /\ pc = "idle"
  /\ yamlString = None /\ html = <<>> /\ options = None
  /\ validateErrors = <<>>
  /\ warnings = <<>> /\ config = None /\ sanitizeOptions = None
  /\ result = <<>> /\ ret = None
  /\ presets = PresetsLoaded

(* no call is running *)
Idle == pc \in {"idle", "done", "returned", "thrown", "rewashed"}

CallWash ==
  /\ Idle
  /\ pc' = "wash"
  /\ html' \in CallHtmls /\ options' \in CallOptions
  /\ yamlString' = None
  /\ warnings' = <<>> /\ config' = None /\ sanitizeOptions' = None
  /\ result' = <<>> /\ ret' = None
  /\ UNCHANGED <<presets, validateErrors>>

CallParseSetup ==
  /\ Idle
  /\ pc' = "parseSetup"
  /\ yamlString' \in CallTexts
  /\ html' = <<>> /\ options' = None
  /\ warnings' = <<>> /\ config' = None /\ sanitizeOptions' = None
  /\ result' = <<>> /\ ret' = None
  /\ UNCHANGED <<presets, validateErrors>>

(* wash(wash(html, o).html, o): the call made again on the html returned,  *)
(* with the same options; result is the html of the second call            *)
WashAgain ==
  /\ pc = "done"
  /\ LET again == Wash(Tokenize(ret.html), options, validateErrors) IN
       /\ ~again.thrown
       /\ result' = again.value.html
       /\ validateErrors' = again.errors
  /\ pc' = "rewashed"
  /\ UNCHANGED <<presets, yamlString, html, options, warnings, config, sanitizeOptions, ret>>

NextCalls ==
  \/ CallWash
  \/ CallParseSetup
  \/ WashParse
  \/ WashBuildOptions
  \/ WashSanitize
  \/ WashEnsureTitle
  \/ WashEnsureImageAlt
  \/ WashReturn
  \/ ParseSetupCall
  \/ WashAgain

SpecCalls == InitCalls /\ [][NextCalls]_vars

(* ======================= claims about parseSetup ======================= *)
Called == pc \in {"returned", "thrown"}
Doc == ParseDocument(yamlString)
SyntaxOk == ~Doc.thrown /\ Doc.errors = <<>>

(* the shape of a Policy, stated on the data tree *)
IsStringArr(v) == v.t = "arr" /\ \A i \in DOMAIN v.items : v.items[i].t = "str"
IsStringArrRecord(v) == v.t = "obj" /\ \A i \in DOMAIN v.m : IsStringArr(v.m[i].val)
FieldShaped(k, v) ==
  CASE k \in {"allowedTags", "selfClosing"} -> IsStringArr(v)
    [] k \in {"allowedAttributes", "allowedClasses"} -> IsStringArrRecord(v)
    [] k = "disallowedTagsMode" ->
         v.t = "str" /\ v.s \in {"discard", "escape", "recursiveEscape", "completelyDiscard"}
    [] k = "allowProtocolRelative" -> v.t = "bool"
    [] OTHER -> FALSE
PolicyShaped(d) == d.t = "obj" /\ \A i \in DOMAIN d.m : FieldShaped(d.m[i].key, d.m[i].val)

(* C3: for every text parseSetup returns one of the two result shapes and  *)
(* lets no exception escape.                                               *)
C3_NeverThrows ==
  /\ pc # "thrown"
  /\ pc = "returned" =>
       \/ DOMAIN ret = {"ok", "config"} /\ ret.ok = TRUE
       \/ DOMAIN ret = {"ok", "errorCode", "errorMessage"} /\ ret.ok = FALSE

(* C6: ok:true exactly when the text has no syntax error and its data tree *)
(* is an object of known keys with fields of the declared shapes; a data   *)
(* tree of any other shape gives SCHEMA_VALIDATION_ERROR.                  *)
C6_OkIffPolicyShaped ==
  pc = "returned" =>
    /\ ret.ok <=> (SyntaxOk /\ PolicyShaped(NodeToJS(yamlString.contents)))
    /\ (SyntaxOk /\ ~PolicyShaped(NodeToJS(yamlString.contents)))
         => (~ret.ok /\ ret.errorCode = "SCHEMA_VALIDATION_ERROR")

C6_Witness ==
  /\ pc = "returned" /\ ~ret.ok /\ ret.errorCode = "SCHEMA_VALIDATION_ERROR"
  /\ yamlString.contents.t = "map"
  /\ Len(yamlString.contents.m) = 1
  /\ yamlString.contents.m[1].key = "unknownProperty"

(* C7 as stated: the empty and the whitespace-only text give ok:true with  *)
(* an empty Policy.                                                        *)
IsBlank(text) == text.trap = "none" /\ text.contents = EmptyDoc

C7_BlankIsEmptyPolicy ==
  (pc = "returned" /\ IsBlank(yamlString)) => ret = [ok |-> TRUE, config |-> JsObj(<<>>)]

(* C7 amended: the empty and every whitespace-only text give the same      *)
(* failure, SCHEMA_VALIDATION_ERROR with the bare reason "must be object"; *)
(* the explicit empty mapping gives ok:true with no field present.         *)
C7_BlankIsSchemaError ==
  /\ (Called /\ IsBlank(yamlString)) =>
        /\ pc = "returned"
        /\ ret = [ok |-> FALSE, errorCode |-> "SCHEMA_VALIDATION_ERROR",
                  errorMessage |-> <<"must be object">>]
  /\ (Called /\ yamlString.trap = "none" /\ yamlString.contents = MapN(<<>>)) =>
        /\ pc = "returned"
        /\ ret = [ok |-> TRUE, config |-> JsObj(<<>>)]

C7_Witness == pc = "returned" /\ IsBlank(yamlString) /\ yamlString.pad > 0

(* C8: a syntax error (or a throwing parser) gives YAML_SYNTAX_ERROR with  *)
(* the first reported message, and the validator is not run.               *)
C8_SyntaxErrorFirst ==
  (Called /\ ~SyntaxOk) =>
    /\ pc = "returned"
    /\ ~ret.ok
    /\ ret.errorCode = "YAML_SYNTAX_ERROR"
    /\ ret.errorMessage =
         (IF Doc.thrown
            THEN (IF Doc.error.isError THEN Doc.error.message ELSE <<"Unknown YAML error">>)
            ELSE Head(Doc.errors).message)
    /\ validateErrors = <<>>

C8_Witness ==
  /\ pc = "returned" /\ Len(Doc.errors) > 0
  /\ \E i \in DOMAIN yamlString.contents.m :
        yamlString.contents.m[i].key = "unknownProperty"

(* C9: a schema failure surfaces the validator's first violation, as       *)
(* "<path>: <reason>" or the bare reason when the path is empty; an        *)
(* unknown key wins over a wrong-typed field, and among wrong-typed fields *)
(* the one the schema declares first.                                      *)
SchemaFailed == pc = "returned" /\ ~ret.ok /\ ret.errorCode = "SCHEMA_VALIDATION_ERROR"
Data == NodeToJS(yamlString.contents)
HasUnknownKey(d) == \E i \in DOMAIN d.m : d.m[i].key \notin SchemaNames
BadFields(d) ==
  {i \in DOMAIN SchemaProperties :
     HasKey(d, SchemaProperties[i].name)
       /\ ~FieldShaped(SchemaProperties[i].name, Get(d, SchemaProperties[i].name))}
FirstBadField(d) ==
  SchemaProperties[CHOOSE i \in BadFields(d) : \A j \in BadFields(d) : i <= j].name

RECURSIVE SameValue(_, _)
SameValue(n, v) ==
  CASE n.t \in {"plain", "quoted"} -> v.t \in {"str", "bool"} /\ v.s = n.s
    [] n.t = "seq" ->
         /\ v.t = "arr" /\ Len(v.items) = Len(n.items)
         /\ \A i \in DOMAIN n.items : SameValue(n.items[i], v.items[i])
    [] n.t = "map" ->
         /\ v.t = "obj" /\ Len(v.m) = Len(n.m)
         /\ \A i \in DOMAIN n.m :
              v.m[i].key = n.m[i].key /\ SameValue(n.m[i].val, v.m[i].val)
    [] OTHER -> FALSE

C10_ConfigIsDataTree ==
  (pc = "returned" /\ ret.ok) => SameValue(yamlString.contents, ret.config)

C10_Witness ==
  /\ pc = "returned" /\ ret.ok
  /\ HasKey(ret.config, "allowedTags")
  /\ ~HasKey(ret.config, "disallowedTagsMode")

(* ========================== claims about wash ========================== *)
Dangerous == {"script", "style", "iframe", "object", "embed", "applet", "frame", "frameset"}

TitleOf(o) == IF o = None THEN None ELSE o.title

(* wash as one function of html and options, when no step throws *)
WashOf(markup, o) ==
  LET setupYaml == IF o # None /\ o.setup # None THEN o.setup ELSE PresetStandard
      p == ParseSetup(setupYaml, <<>>).value
      f == ParseSetup(PresetStandard, <<>>).value
      w == IF p.ok THEN <<>> ELSE <<SetupWarning(p)>>
      clean == SanitizeHtml(markup, BuildOptions(ResolveConfig(p, f)))
  IN EnsureImageAlt(EnsureTitle(clean, TitleOf(o)), w)

PolicyLists(cfg, key, tags) ==
  HasKey(cfg, key) /\ \E t \in tags : Includes(Strs(Get(cfg, key)), t)

(* an opening tag named name (lower-case), in any letter case, at i *)
TagNamed(cs, i, name) ==
  /\ i + Len(Chars(name)) + 1 <= Len(cs)
  /\ cs[i] = "<"
  /\ LowerChars(SubSeq(cs, i + 1, i + Len(Chars(name)))) = Chars(name)
  /\ (cs[i + Len(Chars(name)) + 1] \in {">", "/"} \/ IsSpace(cs[i + Len(Chars(name)) + 1]))

(* position i is inside a tag *)
InTag(cs, i) == \E j \in 1..(i - 1) : cs[j] = "<" /\ \A k \in j..i : cs[k] # ">"

(* C1: the exclusion rule handed to the engine is true for exactly the     *)
(* eight always-blocked tag names whatever the policy, the engine's result *)
(* holds no element with one of these names and no unescaped script or     *)
(* style text, and no tag with one of these names is in the html wash      *)
(* returns.                                                                *)
C1_AlwaysBlocked ==
  /\ sanitizeOptions # None => sanitizeOptions.exclusiveFilter = Dangerous
  /\ pc = "sanitized" =>
       \A item \in Range(EngineItems(html, sanitizeOptions)) :
         item.k # "raw" /\ (item.k = "open" => item.tag \notin Dangerous)
  /\ pc = "done" =>
       \A i \in DOMAIN ret.html : \A n \in Dangerous : ~TagNamed(ret.html, i, n)

C1_Witness ==
  /\ pc = "done"
  /\ PolicyLists(config, "allowedTags", {"frameset"})
  /\ \E i \in DOMAIN html : html[i].tag = "frameset"
  /\ ret.html # <<>>

(* C2: no attribute whose name starts with "on", in any letter case, is on *)
(* an element of the html wash returns.                                    *)
C2_NoEventHandlers ==
  pc = "done" =>
    \A i \in DOMAIN ret.html :
      ~(IsSpace(ret.html[i]) /\ MatchesAt(ret.html, i + 1, <<"o", "n">>) /\ InTag(ret.html, i))

SetupFailed == yamlString # None /\ ~ParseSetup(yamlString, <<>>).thrown
                 /\ ~ParseSetup(yamlString, <<>>).value.ok

(* C4: with a setup that parseSetup rejects, wash returns the html of the  *)
(* standard-preset call, and its warnings are "Setup error: <message>"     *)
(* followed by the warnings of the standard-preset call.                   *)
C4_FallbackIsStandard ==
  (pc = "done" /\ SetupFailed) =>
    LET std == WashOf(html, [setup |-> PresetStandard, title |-> options.title]) IN
      /\ ret.html = std.html
      /\ ret.warnings =
           <<<<"Setup error: ">> \o ParseSetup(yamlString, <<>>).value.errorMessage>>
             \o std.warnings

C4_Witness ==
  /\ pc = "done" /\ SetupFailed
  /\ Len(ret.warnings) = 2
  /\ \E i \in DOMAIN ret.html : TagNamed(ret.html, i, "img")

(* C5: wash returns a result for every setup text, never throws, and the   *)
(* html it returns is the post-processed output of the engine run with     *)
(* the exclusion rule.                                                     *)
C5_NeverThrowsAlwaysSanitized ==
  /\ pc # "thrown"
  /\ pc = "done" =>
       /\ DOMAIN ret = {"html", "warnings"}
       /\ sanitizeOptions.exclusiveFilter = Dangerous
       /\ ret.html = EnsureImageAlt(
                       EnsureTitle(SanitizeHtml(html, sanitizeOptions), TitleOf(options)),
                       <<>>).html

(* C11: wash parses options.setup whenever it is given, the empty text     *)
(* included, and the standard preset text only when options or its setup   *)
(* is absent; a call without setup returns the html and warnings of the    *)
(* call with setup presets.standard and the same title.                    *)
C11_AbsentSetupIsStandard ==
  /\ pc # "wash" =>
       yamlString = (IF options # None /\ options.setup # None
                       THEN options.setup ELSE PresetStandard)
  /\ (pc = "done" /\ (options = None \/ options.setup = None)) =>
       ret = WashOf(html, [setup |-> PresetStandard, title |-> TitleOf(options)])

C11_Witness ==
  /\ pc = "done" /\ options # None /\ options.setup = None /\ options.title # None
  /\ yamlString = PresetStandard
  /\ \E i \in DOMAIN ret.html : TagNamed(ret.html, i, "title")

(* C12: parseSetup accepts each of the three preset texts; the policy of   *)
(* the minimal preset is allowedTags p, a, strong, em, br, allowedAttributes*)
(* a: href, disallowedTagsMode discard, allowProtocolRelative false, and   *)
(* nothing else; and the allowedTags of minimal, standard and permissive   *)
(* grow: each holds every tag of the one before.                           *)
MinimalPolicy ==
  JsObj(<< Pair("allowedTags",
                JsArr(<<JsStr("p"), JsStr("a"), JsStr("strong"), JsStr("em"), JsStr("br")>>)),
           Pair("allowedAttributes", JsObj(<<Pair("a", JsArr(<<JsStr("href")>>))>>)),
           Pair("disallowedTagsMode", JsStr("discard")),
           Pair("allowProtocolRelative", JsBool("false")) >>)

PresetTags(text) ==
  Range(Strs(Get(ParseSetup(text, <<>>).value.config, "allowedTags")))

C12_PresetsValid ==
  (Called /\ yamlString \in Presets) =>
    /\ pc = "returned" /\ ret.ok
    /\ yamlString = PresetMinimal => ret = Ok(MinimalPolicy)
    /\ PresetTags(PresetMinimal) \subseteq PresetTags(PresetStandard)
    /\ PresetTags(PresetStandard) \subseteq PresetTags(PresetPermissive)

C12_Witness ==
  /\ pc = "returned" /\ yamlString = PresetMinimal /\ ret.ok
  /\ Cardinality(PresetTags(PresetMinimal)) = 5
  /\ Cardinality(PresetTags(PresetPermissive)) > Cardinality(PresetTags(PresetStandard))

(* ============ claims about ensureTitle and ensureImageAlt ============== *)
(* the five-entity escape, character by character *)
FiveEntities(cs) ==
  Flatten([i \in DOMAIN cs |->
    CASE cs[i] = "&" -> <<"&", "a", "m", "p", ";">>
      [] cs[i] = "<" -> <<"&", "l", "t", ";">>
      [] cs[i] = ">" -> <<"&", "g", "t", ";">>
      [] cs[i] = "\"" -> <<"&", "q", "u", "o", "t", ";">>
      [] cs[i] = "'" -> <<"&", "#", "3", "9", ";">>
      [] OTHER -> <<cs[i]>>])

(* an opening tag named name starts at i and is closed by a later ">" *)
OpeningTag(cs, i, name) == TagNamed(cs, i, name) /\ IndexFrom(cs, ">", i) # 0
HasTag(cs, name) == \E i \in DOMAIN cs : OpeningTag(cs, i, name)
FirstTag(cs, name) ==
  CHOOSE i \in DOMAIN cs : OpeningTag(cs, i, name) /\ \A j \in 1..(i - 1) : ~OpeningTag(cs, j, name)
CountTags(cs, name) == Cardinality({i \in DOMAIN cs : OpeningTag(cs, i, name)})

TitleGiven == options.title # None /\ options.title.chars # <<>>
TitleText(chars) ==
  <<"<", "t", "i", "t", "l", "e", ">">> \o FiveEntities(chars)
    \o <<"<", "/", "t", "i", "t", "l", "e", ">">>

(* C13: for html with no title tag and with a head opening tag, and a      *)
(* non-empty title of any characters, ensureTitle returns html with        *)
(* <title>, the escaped title and </title> put right after the first head  *)
(* opening tag, and nothing else changed.                                  *)
C13_TitleAfterFirstHead ==
  (pc = "titleReturned" /\ TitleGiven /\ ~HasTag(html, "title") /\ HasTag(html, "head")) =>
    LET e == IndexFrom(html, ">", FirstTag(html, "head")) IN
    result = SubSeq(html, 1, e) \o TitleText(options.title.chars)
               \o SubSeq(html, e + 1, Len(html))

(* C14: for html with neither a title tag nor a head opening tag, and a    *)
(* non-empty title, ensureTitle returns <title>, the escaped title and     *)
(* </title> followed by html unchanged.                                    *)
C14_TitlePrepended ==
  (pc = "titleReturned" /\ TitleGiven /\ ~HasTag(html, "title") /\ ~HasTag(html, "head")) =>
    result = TitleText(options.title.chars) \o html

(* C15: ensureTitle returns html unchanged when the title is absent or     *)
(* empty, and when html already holds a title tag in any letter case.      *)
C15_NoTitleNoChange ==
  (pc = "titleReturned" /\ (~TitleGiven \/ HasTag(html, "title"))) => result = html

C15_Witness ==
  /\ pc = "titleReturned" /\ TitleGiven /\ HasTag(html, "title") /\ HasTag(html, "head")
  /\ \A i \in DOMAIN html : ~OccursAt(html, i, <<"<", "t", "i", "t", "l", "e">>)
  /\ result = html

(* C16: the output of one ensureTitle call holds at most one title opening *)
(* tag more than its input, and exactly one when the input held none and   *)
(* the title is not empty.                                                 *)
C16_AtMostOneTitleAdded ==
  pc = "titleReturned" =>
    /\ CountTags(result, "title") <= CountTags(html, "title") + 1
    /\ (TitleGiven /\ CountTags(html, "title") = 0) => CountTags(result, "title") = 1

(* the text ensureTitle put between <title> and </title>: what result has  *)
(* more than clean, less the two tags                                      *)
PlacedTitle(clean, out) ==
  SubSeq(out, IndexOf(out, <<"<", "t", "i", "t", "l", "e", ">">>) + 7,
              IndexOf(out, <<"<", "t", "i", "t", "l", "e", ">">>) + Len(out) - Len(clean) - 9)

Entities ==
  { <<"&", "a", "m", "p", ";">>, <<"&", "l", "t", ";">>, <<"&", "g", "t", ";">>,
    <<"&", "q", "u", "o", "t", ";">>, <<"&", "#", "3", "9", ";">> }

NoMarkup(cs) ==
  \A k \in DOMAIN cs :
    /\ cs[k] \notin {"<", ">", "\"", "'"}
    /\ cs[k] = "&" => \E en \in Entities : OccursAt(cs, k, en)

(* C17: the text that wash places between <title> and </title> holds no    *)
(* raw < > " ' and no & other than the start of one of the five entities,  *)
(* on the head-insertion path and on the prepend path (read after          *)
(* ensureTitle; ensureImageAlt, the last step, rewrites img tags only).    *)
C17_TitleTextEscaped ==
  (pc = "titled" /\ result # SanitizeHtml(html, sanitizeOptions)) =>
    NoMarkup(PlacedTitle(SanitizeHtml(html, sanitizeOptions), result))

(* ---- img tags as an HTML tokenizer reads them ------------------------- *)
(* the img tags of cs from position i on: where each starts and ends, and  *)
(* its attribute names                                                     *)
RECURSIVE ImgTags(_, _)
ImgTags(cs, i) ==
  IF i >= Len(cs) THEN <<>>
  ELSE IF cs[i] # "<" \/ IsDelimiter(cs[i + 1]) \/ cs[i + 1] = "<"
    THEN ImgTags(cs, i + 1)
  ELSE IF \A j \in (i + 1)..Len(cs) : ~IsDelimiter(cs[j]) THEN <<>>
  ELSE
    LET j == CHOOSE j \in (i + 1)..Len(cs) :
               IsDelimiter(cs[j]) /\ \A k \in (i + 1)..(j - 1) : ~IsDelimiter(cs[k])
        scan == ScanAttrs(cs, j, "between", <<>>, <<>>)
    IN IF scan.to = 0 THEN <<>>
       ELSE (IF TagNamed(cs, i, "img")
               THEN <<[from |-> i, to |-> scan.to, names |-> scan.names]>>
               ELSE <<>>)
            \o ImgTags(cs, scan.to + 1)

HasAlt(tag) == \E k \in DOMAIN tag.names : tag.names[k] = <<"a", "l", "t">>
TagChars(cs, tag) == SubSeq(cs, tag.from, tag.to)

(* C18: every img tag of the html ensureImageAlt returns carries an alt    *)
(* attribute, however many img tags lacked one and whatever the values of  *)
(* their other attributes.                                                 *)
C18_EveryImgHasAlt ==
  pc = "altReturned" =>
    \A k \in DOMAIN ImgTags(result, 1) : HasAlt(ImgTags(result, 1)[k])

(* cs with alt="" put before the closing ">" of each of the tags that has  *)
(* no alt attribute, last tag first                                        *)
RECURSIVE WithAlts(_, _)
WithAlts(cs, tags) ==
  IF tags = <<>> THEN cs
  ELSE LET t == tags[Len(tags)] IN
       WithAlts(IF HasAlt(t) THEN cs
                ELSE SubSeq(cs, 1, t.to - 1) \o <<" ", "a", "l", "t", "=", "\"", "\"">>
                       \o SubSeq(cs, t.to, Len(cs)),
                SubSeq(tags, 1, Len(tags) - 1))

(* C19: the html ensureImageAlt returns is its input with alt="" put       *)
(* before the closing ">" of the img tags that had no alt attribute, and   *)
(* no other character added, removed, repeated or moved; it has as many    *)
(* img tags as the input.                                                  *)
C19_OnlyAltInserted ==
  pc = "altReturned" =>
    /\ result = WithAlts(html, ImgTags(html, 1))
    /\ Len(ImgTags(result, 1)) = Len(ImgTags(html, 1))

(* C20: an img tag that has an alt attribute in any form is returned       *)
(* character for character as it was, and no img tag of the returned html  *)
(* has two alt attributes.                                                 *)
C20_AltKeptOnce ==
  pc = "altReturned" =>
    LET ins == ImgTags(html, 1)
        outs == ImgTags(result, 1)
    IN /\ Len(outs) = Len(ins)
       /\ \A k \in DOMAIN ins :
            /\ HasAlt(ins[k]) => TagChars(result, outs[k]) = TagChars(html, ins[k])
            /\ Cardinality({j \in DOMAIN outs[k].names : outs[k].names[j] = <<"a", "l", "t">>}) <= 1

(* C21: ensureImageAlt appends the image warning once, whatever the number *)
(* of tags it rewrote, and appends nothing when it rewrote none; the other *)
(* warnings stay as they were, and the warning is appended exactly when    *)
(* the returned html differs from the html given.                          *)
C21_OneWarningIffChanged ==
  pc = "altReturned" =>
    /\ \E w \in EarlierWarnings : warnings \in {w, Append(w, AltWarning)}
    /\ (warnings \notin EarlierWarnings) <=> (result # html)
    /\ ImgMatches(html, 1) = <<>> => (result = html /\ warnings \in EarlierWarnings)

C21_Witness ==
  /\ pc = "altReturned"
  /\ Len(ImgMatches(html, 1)) >= 2
  /\ Len(warnings) = 2 /\ warnings[2] = AltWarning
  /\ result # html

(* C22: both post-processors are idempotent: ensureTitle applied to its    *)
(* own output with the same title returns that output, and ensureImageAlt  *)
(* applied to its own output returns it unchanged and appends no warning.  *)
C22_PostProcessorsIdempotent ==
  /\ pc = "titleAgain" => ret = result
  /\ pc = "altAgain" => ret = [html |-> result, warnings |-> warnings]

(* ================ claims about sequences of calls ====================== *)
(* C23: washing the html that wash returned, with the same options, gives  *)
(* that html again, also when the first call inserted a title element.     *)
C23_WashTwiceIsWashOnce ==
  pc = "rewashed" => result = ret.html

(* C24: whatever calls came before, and whatever violation records they   *)
(* left on the validator, a call of wash or parseSetup returns what it     *)
(* returns as the first call of the process, and throws exactly when it    *)
(* throws as the first call.                                               *)
C24_CallsAreIndependent ==
  /\ pc = "done" =>
       ~ParseSetup(yamlString, <<>>).thrown /\ ret = WashOf(html, options)
  /\ pc = "returned" =>
       ~ParseSetup(yamlString, <<>>).thrown /\ ret = ParseSetup(yamlString, <<>>).value
  /\ pc = "thrown" =>
       ParseSetup(yamlString, <<>>).thrown /\ ret = ParseSetup(yamlString, <<>>).value

(* a call that does not reach the validator returned while the validator   *)
(* holds the records of an earlier call                                    *)
C24_Witness ==
  /\ pc \in {"done", "returned"}
  /\ validateErrors # <<>>
  /\ validateErrors # ParseSetup(yamlString, <<>>).errors

(* C25: after any sequence of calls the three preset texts are what they  *)
(* were when the module was loaded; during a wash call the options and the *)
(* html given stay as they were given, and the policy, once resolved, is   *)
(* and stays the policy parseSetup returned: the event-handler stripping   *)
(* shows in the engine options only.                                       *)
Resolved == pc \in {"config", "options", "sanitized", "titled", "alt", "done", "rewashed"}

PolicyAsParsed ==
  IF ParseSetup(yamlString, <<>>).value.ok
    THEN ParseSetup(yamlString, <<>>).value.config
    ELSE ParseSetup(PresetStandard, <<>>).value.config

(* a step of a wash call that is not the start of the next call *)
WashStep ==
  pc \in {"wash", "config", "options", "sanitized", "titled", "alt", "done"}
    /\ pc' \notin {"wash", "parseSetup"}

ArgumentsKept ==
  WashStep => (options' = options /\ html' = html /\ (Resolved => config' = config))

C25_PresetsPolicyOptionsKept ==
  /\ [](presets = PresetsLoaded)
  /\ [](Resolved => config = PolicyAsParsed)
  /\ [][ArgumentsKept]_vars

C25_Witness ==
  /\ pc = "done"
  /\ options # None /\ options.setup # None /\ yamlString = options.setup
  /\ HasKey(config, "allowedAttributes")
  /\ sanitizeOptions.allowedAttributes # Get(config, "allowedAttributes")
  /\ \E i \in DOMAIN Get(config, "allowedAttributes").m :
        Includes(Strs(Get(config, "allowedAttributes").m[i].val), "onclick")

(* C26: the option record given to the engine has the exclusion rule and   *)
(* exactly the policy fields that are present; allowedTags, allowedClasses,*)
(* disallowedTagsMode, selfClosing and allowProtocolRelative carry the     *)
(* policy's value as it is, an always-blocked tag in allowedTags, an empty *)
(* list and false included.                                                *)
PolicyFields ==
  {"allowedTags", "allowedAttributes", "allowedClasses", "disallowedTagsMode",
   "selfClosing", "allowProtocolRelative"}

C26_OptionsArePresentFields ==
  (Resolved /\ pc # "config") =>
    /\ DOMAIN sanitizeOptions = {"exclusiveFilter"} \cup {f \in PolicyFields : HasKey(config, f)}
    /\ \A f \in PolicyFields \ {"allowedAttributes"} :
         HasKey(config, f) => sanitizeOptions[f] = Get(config, f)

C26_Witness ==
  /\ pc = "options"
  /\ DOMAIN sanitizeOptions =
       {"exclusiveFilter", "allowedTags", "allowedAttributes", "selfClosing",
        "allowProtocolRelative"}
  /\ Includes(Strs(sanitizeOptions.allowedTags), "script")
  /\ sanitizeOptions.selfClosing = JsArr(<<>>)
  /\ sanitizeOptions.allowProtocolRelative = JsBool("false")

(* C27: the allowedAttributes map given to the engine has the tag keys of  *)
(* the policy's map, all of them and in the same order, and for each tag   *)
(* the policy's list without the entries that start with "on" in any       *)
(* letter case: the other entries in their order, repeated ones repeated,  *)
(* and an empty list where none is left.                                   *)
OnName(name) ==
  /\ Len(Chars(name)) >= 2
  /\ Chars(name)[1] \in {"o", "O"}
  /\ Chars(name)[2] \in {"n", "N"}

C27_OnlyOnEntriesRemoved ==
  (Resolved /\ pc # "config" /\ HasKey(config, "allowedAttributes")) =>
    LET given == Get(config, "allowedAttributes").m
        passed == sanitizeOptions.allowedAttributes.m
    IN /\ Len(passed) = Len(given)
       /\ \A i \in DOMAIN given :
            /\ passed[i].key = given[i].key
            /\ Strs(passed[i].val) = SelectSeq(Strs(given[i].val), LAMBDA a : ~OnName(a))

C27_Witness ==
  /\ pc = "options" /\ HasKey(config, "allowedAttributes")
  /\ \A key \in {"a", "img", "onclick"} : HasKey(sanitizeOptions.allowedAttributes, key)
  /\ Strs(Get(sanitizeOptions.allowedAttributes, "a")) = <<"href", "href">>
  /\ Strs(Get(sanitizeOptions.allowedAttributes, "img")) = <<>>
  /\ Strs(Get(sanitizeOptions.allowedAttributes, "onclick")) = <<"src", "alt">>
  /\ Strs(Get(Get(config, "allowedAttributes"), "onclick")) = <<"src", "ONCLICK", "alt">>

(* C28: when the setup text is rejected, the standard preset is parsed     *)
(* again without a throw and with ok: true, whatever the errors an earlier *)
(* call left on the validator; the policy used is the preset as parsed,    *)
(* never the empty policy, and a call that throws threw in the parse of    *)
(* the setup text.                                                         *)
C28_FallbackParseSucceeds ==
  /\ (Resolved /\ SetupFailed) =>
       LET fallback == ParseSetup(presets.standard, validateErrors) IN
         /\ ~fallback.thrown /\ fallback.value.ok
         /\ presets.standard = PresetStandard
         /\ config = fallback.value.config
         /\ config # JsObj(<<>>)
         /\ HasKey(config, "allowedTags")
  /\ (pc = "thrown" /\ yamlString # None) => ParseSetup(yamlString, <<>>).thrown

C28_Witness ==
  /\ pc = "done" /\ SetupFailed
  /\ options.setup \in BadSetups
  /\ Len(ret.warnings) = 1
  /\ Includes(Strs(Get(config, "allowedTags")), "table")
  /\ sanitizeOptions.selfClosing = Get(config, "selfClosing")

(* C29: the warnings wash returns are at most two: a "Setup error: ..."    *)
(* entry, first when present, and the image warning, last when present;    *)
(* there is none exactly when the setup text was parsed with ok: true and  *)
(* no img tag of the engine's output was without an alt attribute.         *)
IsSetupWarning(w) == Len(w) >= 1 /\ w[1] = "Setup error: "

ImgLacksAlt(cs) ==
  \E k \in DOMAIN ImgTags(cs, 1) : ~HasAlt(ImgTags(cs, 1)[k])

C29_WarningsShape ==
  pc = "done" =>
    LET w == ret.warnings IN
      /\ Len(w) <= 2
      /\ \A k \in DOMAIN w :
            /\ IsSetupWarning(w[k]) \/ w[k] = AltWarning
            /\ IsSetupWarning(w[k]) => k = 1
            /\ w[k] = AltWarning => k = Len(w)
      /\ (w = <<>>) <=>
            (~SetupFailed /\ ~ImgLacksAlt(SanitizeHtml(html, sanitizeOptions)))

(* C30: a wash call goes through policy parse, option build, one engine    *)
(* run, ensureTitle and ensureImageAlt in that order and through nothing   *)
(* else; the engine is run on the html given, ensureTitle on the engine's  *)
(* output, ensureImageAlt on ensureTitle's output, and that is the html    *)
(* returned; so a title element that ensureTitle inserted is in the html   *)
(* returned, whether or not the policy's allowedTags lists title.          *)
StepsInOrder ==
  /\ pc = "wash" => pc' \in {"config", "thrown"}
  /\ pc' = "config" => pc = "wash"
  /\ pc = "config" => (pc' = "options" /\ sanitizeOptions' = BuildOptions(config))
  /\ pc' = "options" => pc = "config"
  /\ pc = "options" => (pc' = "sanitized" /\ result' = SanitizeHtml(html, sanitizeOptions))
  /\ pc' = "sanitized" => pc = "options"
  /\ pc = "sanitized" => (pc' = "titled" /\ result' = EnsureTitle(result, TitleOf(options)))
  /\ pc' = "titled" => pc = "sanitized"
  /\ pc = "titled" => (pc' = "alt" /\ result' = EnsureImageAlt(result, warnings).html)
  /\ pc' = "alt" => pc = "titled"
  /\ pc = "alt" => (pc' = "done" /\ ret'.html = result)
  /\ pc' = "done" => pc = "alt"
  /\ pc \in {"wash", "config", "alt"} => result' = result

TitleInserted ==
  /\ pc = "done"
  /\ EnsureTitle(SanitizeHtml(html, sanitizeOptions), TitleOf(options))
       # SanitizeHtml(html, sanitizeOptions)

InsertedTitleReturned ==
  TitleInserted =>
    /\ CountTags(ret.html, "title") = 1
    /\ IndexOf(ret.html, TitleElement(options.title.chars)) # 0

C30_StepsInOrderTitleKept == []InsertedTitleReturned /\ [][StepsInOrder]_vars

C30_Witness ==
  /\ TitleInserted
  /\ HasKey(config, "allowedTags") /\ ~PolicyLists(config, "allowedTags", {"title"})
  /\ ~HasTag(SanitizeHtml(html, sanitizeOptions), "title")
  /\ OccursAt(ret.html, 1, TitleElement(options.title.chars))
  /\ Len(ret.html) > Len(TitleElement(options.title.chars))

====
